---- MODULE Spec2Model ----
(***************************************************************************)
(* Model of the Tergar meditation-log browser extension.                   *)
(*                                                                         *)
(* popup/button.js      click -> tabs.sendMessage(store_meditation_logs)   *)
(* content script       reads the page's localStorage (Redux Persist),     *)
(*                      merges regular and mala logs, storage.local.set,   *)
(*                      runtime.sendMessage(download_stored_object)        *)
(* background.js        storage.local.get, JSON.stringify, download        *)
(*                                                                         *)
(* The bucketing of merged logs (MeditationLogs.bucket_entries) is not     *)
(* part of the extension's scripts; it is modelled from its description    *)
(* and checked under its own specification, SpecBucket.                    *)
(***************************************************************************)
EXTENDS Integers, Sequences, FiniteSets, TLC

\* ------------------------------------------------------------------ bounds
MaxLen      == 2   \* longest persisted log array
MaxRequests == 2   \* popup clicks in one behaviour
MaxPersist  == 1   \* writes of the page's persisted state by the app
MaxForeign  == 1   \* events besides requests and app writes: foreign messages,
                   \* clicks that send nothing, injections of the content script

\* ------------------------------------------------------------ log records
\* Course objects as documented in tergar-breaking-changes.
CourseCustomOld == [id |-> 6, code |-> "CUSTOM", name |-> "Custom"]
CourseCustomNew == [id |-> 6, name |-> "Custom"]
CourseJOL       == [id |-> 1, code |-> "JOL1", name |-> "Joy of Living 1"]
CourseFuture    == [id |-> 9, name |-> "SomeUnknownFutureType"]
CourseNgondro   == [id |-> 20, code |-> "NGONDRO", name |-> "Ngondro"]

\* Regular logs (reduxPersist:dataMeditation), old and new record format.
RegularLogs ==
    { [id |-> "1699377", elapsed |-> 1800, course |-> CourseCustomOld],
      [id |-> "623253d1", elapsed |-> 2267, course |-> CourseCustomNew] }

\* Mala logs (reduxPersist:dataMalaMeditation) carry the mala count.
MalaLogs ==
    { [id |-> "m1", elapsed |-> 600, malas |-> 3, course |-> CourseNgondro] }

RECURSIVE SeqsUpTo(_, _)
SeqsUpTo(S, n) ==
    IF n = 0 THEN { <<>> }
    ELSE LET shorter == SeqsUpTo(S, n - 1)
         IN  shorter \cup { Append(q, x) : q \in { s \in shorter : Len(s) = n - 1 }, x \in S }

\* ------------------------------------------------------------ JSON values
JNull      == [t |-> "null"]
JUndefined == [t |-> "undefined"]
JObject    == [t |-> "object"]
JNumber    == [t |-> "number"]
JString    == [t |-> "string", parts |-> << "abc" >>]
JArray(items) == [t |-> "array", items |-> items]

NonArrayValues == { JObject, JNumber, JString }

\* What window.localStorage holds under one key: nothing, text that is not
\* JSON, or the JSON text of a value.
Absent     == [raw |-> "absent"]
Malformed  == [raw |-> "malformed"]
JsonText(v) == [raw |-> "json", v |-> v]

PrimaryRaws ==
    { Absent, Malformed } \cup { JsonText(v) : v \in NonArrayValues }
      \cup { JsonText(JArray(s)) : s \in SeqsUpTo(RegularLogs, MaxLen) }
SecondaryRaws ==
    { Absent, Malformed } \cup { JsonText(v) : v \in NonArrayValues }
      \cup { JsonText(JArray(s)) : s \in SeqsUpTo(MalaLogs, MaxLen) }

\* ----------------------------------------------------- content script: merge
\* window.localStorage.getItem(key): null for a key that is not there.
getItem(raw) ==
    IF raw.raw = "absent" THEN [text |-> "null", raw |-> raw]
    ELSE [text |-> raw.raw, raw |-> raw]

\* JSON.parse(text): getItem's null is coerced to the text "null" and parses
\* to null; text that is not JSON throws a SyntaxError.
JSONParse(item) ==
    IF item.text = "null" THEN [threw |-> FALSE, v |-> JNull]
    ELSE IF item.text = "malformed" THEN [threw |-> TRUE, v |-> JUndefined]
    ELSE [threw |-> FALSE, v |-> item.raw.v]

\* String(v), as String.prototype.concat applies it to its argument.
ToStringParts(v) ==
    IF v.t = "array" THEN [i \in 1..Len(v.items) |-> "[object Object]"]
    ELSE IF v.t = "string" THEN v.parts
    ELSE IF v.t = "number" THEN << "5" >>
    ELSE << "[object Object]" >>

\* Array.prototype.concat(arg): an array argument is spread, any other
\* value is appended as one element.
ArrayConcatDropLast(items, arg) ==
    IF arg.t = "array"
    THEN IF Len(arg.items) = 0 THEN items
         ELSE items \o SubSeq(arg.items, 1, Len(arg.items) - 1)
    ELSE items
ArrayConcatSwapped(items, arg) ==
    IF arg.t = "array" THEN arg.items \o items ELSE << arg >> \o items
WithoutField(record, field) == [f \in DOMAIN record \ { field } |-> record[f]]
ArrayConcatStripMala(items, arg) ==
    IF arg.t = "array"
    THEN items \o [i \in 1..Len(arg.items) |-> WithoutField(arg.items[i], "malas")]
    ELSE Append(items, arg)
ArrayConcat(items, arg) ==
    IF arg.t = "array" THEN items \o arg.items ELSE Append(items, arg)

\* receiver.concat(arg) for the receivers JSON.parse can return.
\* Only arrays and strings have a concat method.
Concat(receiver, arg) ==
    IF receiver.t = "array"
    THEN [threw |-> FALSE, v |-> JArray(ArrayConcat(receiver.items, arg))]
    ELSE IF receiver.t = "string"
    THEN [threw |-> FALSE,
          v |-> [t |-> "string", parts |-> receiver.parts \o ToStringParts(arg)]]
    ELSE [threw |-> TRUE, v |-> JUndefined]

Rejected(name, message, line) ==
    [ok |-> FALSE, value |-> JUndefined,
     error |-> [name |-> name, message |-> message, line |-> line]]
Fulfilled(v) ==
    [ok |-> TRUE, value |-> v,
     error |-> [name |-> "none", message |-> "none", line |-> 0]]

\* storeMeditationLogs(key) up to its call of browser.storage.local.set:
\* the value it hands to set, or the exception that rejects its promise.
storeMeditationLogsNullAsEmpty(ls) ==
    LET meditationLogs == JSONParse(getItem(ls.primary))
        malaMedLogs    == JSONParse(getItem(ls.secondary))
        orEmpty(p) == IF p.threw \/ p.v.t = "null" THEN JArray(<< >>) ELSE p.v
        merged == Concat(orEmpty(meditationLogs), orEmpty(malaMedLogs))
    IN  IF merged.threw
        THEN Rejected("TypeError", "meditationLogs.concat is not a function", 60)
        ELSE Fulfilled(merged.v)
storeMeditationLogs(ls) ==
    LET meditationLogs == JSONParse(getItem(ls.primary))
        malaMedLogs    == JSONParse(getItem(ls.secondary))
    IN  IF meditationLogs.threw
        THEN Rejected("SyntaxError", "JSON.parse: unexpected character", 56)
        ELSE IF malaMedLogs.threw
        THEN Rejected("SyntaxError", "JSON.parse: unexpected character", 57)
        ELSE IF meditationLogs.v.t = "null"
        THEN Rejected("TypeError", "meditationLogs is null", 58)
        ELSE IF malaMedLogs.v.t = "null"
        THEN Rejected("TypeError", "malaMedLogs is null", 59)
        ELSE LET merged == Concat(meditationLogs.v, malaMedLogs.v)
             IN  IF merged.threw
                 THEN Rejected("TypeError", "meditationLogs.concat is not a function", 60)
                 ELSE Fulfilled(merged.v)

\* --------------------------------------------------------------- bucketing
\* MeditationLogs.bucket_entries: groups the merged logs by a category key
\* derived from each record's course.
CUSTOM       == "CUSTOM"
UNRECOGNIZED == "__UNRECOGNIZED__"

CourseEmptyCode  == [id |-> 7, code |-> "", name |-> "Custom"]
CourseLowerCode  == [id |-> 8, code |-> "custom", name |-> "Custom"]

\* The records bucketing is run on: both Custom formats, a course with a
\* code, a mala course, a course of no known shape.
BucketLogs ==
    RegularLogs \cup MalaLogs \cup
    { [id |-> "100", elapsed |-> 900, course |-> CourseJOL],
      [id |-> "101", elapsed |-> 60, course |-> CourseFuture],
      [id |-> "102", elapsed |-> 61, course |-> CourseEmptyCode],
      [id |-> "103", elapsed |-> 62, course |-> CourseLowerCode] }

HasCode(course) == "code" \in DOMAIN course /\ course.code # ""

\* The category key of one record, in precedence order: the course's code,
\* the reserved key of the Custom course, the sentinel.
categoryKeyCodeOnly(record) ==
    IF "code" \in DOMAIN record.course
    THEN [threw |-> FALSE, key |-> record.course.code]
    ELSE [threw |-> TRUE, key |-> UNRECOGNIZED]
categoryKeyNoCustomRule(record) ==
    IF HasCode(record.course) THEN [threw |-> FALSE, key |-> record.course.code]
    ELSE [threw |-> FALSE, key |-> UNRECOGNIZED]
categoryKeyNameFirst(record) ==
    IF record.course.name = "Custom" THEN [threw |-> FALSE, key |-> CUSTOM]
    ELSE IF HasCode(record.course) THEN [threw |-> FALSE, key |-> record.course.code]
    ELSE [threw |-> FALSE, key |-> UNRECOGNIZED]
categoryKey(record) ==
    IF HasCode(record.course) THEN [threw |-> FALSE, key |-> record.course.code]
    ELSE IF record.course.name = "Custom" THEN [threw |-> FALSE, key |-> CUSTOM]
    ELSE [threw |-> FALSE, key |-> UNRECOGNIZED]

\* The bucket map is an ordered mapping: its entries in first-seen order.
NoBuckets == [threw |-> FALSE, buckets |-> << >>, unrecognized |-> << >>]

BucketKeys(buckets) == [i \in 1..Len(buckets) |-> buckets[i].key]
HasBucket(buckets, key) == \E i \in 1..Len(buckets) : buckets[i].key = key
BucketOf(buckets, key) ==
    IF HasBucket(buckets, key)
    THEN buckets[CHOOSE i \in 1..Len(buckets) : buckets[i].key = key].records
    ELSE << >>

\* Append the record to the bucket of its key, creating the bucket on first use.
appendToBucketPrepend(buckets, key, record) ==
    IF HasBucket(buckets, key)
    THEN [i \in 1..Len(buckets) |->
            IF buckets[i].key = key
            THEN [key |-> key, records |-> << record >> \o buckets[i].records]
            ELSE buckets[i]]
    ELSE << [key |-> key, records |-> << record >>] >> \o buckets
appendToBucket(buckets, key, record) ==
    IF HasBucket(buckets, key)
    THEN [i \in 1..Len(buckets) |->
            IF buckets[i].key = key
            THEN [key |-> key, records |-> Append(buckets[i].records, record)]
            ELSE buckets[i]]
    ELSE Append(buckets, [key |-> key, records |-> << record >>])

\* One step of the single pass: the record goes to its key's bucket, and to
\* the side list as well when its key is the sentinel.
bucketStepQuarantineOnly(acc, record) ==
    LET k == categoryKey(record)
    IN  IF acc.threw \/ k.threw THEN [acc EXCEPT !.threw = TRUE]
        ELSE IF k.key = UNRECOGNIZED
        THEN [acc EXCEPT !.unrecognized = Append(@, record)]
        ELSE [acc EXCEPT !.buckets = appendToBucket(@, k.key, record)]
bucketStep(acc, record) ==
    LET k == categoryKey(record)
    IN  IF acc.threw \/ k.threw THEN [acc EXCEPT !.threw = TRUE]
        ELSE [acc EXCEPT
                !.buckets = appendToBucket(@, k.key, record),
                !.unrecognized = IF k.key = UNRECOGNIZED THEN Append(@, record) ELSE @]

RECURSIVE bucketFrom(_, _)
bucketFrom(acc, merged) ==
    IF Len(merged) = 0 THEN acc
    ELSE bucketFrom(bucketStep(acc, Head(merged)), Tail(merged))

bucket_entries(merged) == bucketFrom(NoBuckets, merged)

\* ------------------------------------------------------------------ state
VARIABLES
    localStorage,   \* the page's window.localStorage: the two Redux Persist keys
    persistCount,   \* writes of localStorage by the app so far
    nextReq,        \* number the next button click gets
    foreignCount,   \* foreign messages, failed clicks and injections so far
    hasRun,         \* window.hasRun of the page
    listeners,      \* onMessage listeners the content script has registered
    injections,     \* times the content script was injected into the page
    clickLog,       \* the clicks on the popup so far
    popupErrors,    \* the popup's reportError calls
    bgSeen,         \* the messages handleMessages was called with
    csSeen,         \* the messages the content script's listener was called with
    toContent,      \* tabs.sendMessage messages on their way to the content script
    reqLog,         \* per handled request: what storeMeditationLogs read and did
    setQueue,       \* browser.storage.local.set calls not yet applied
    extStorage,     \* browser.storage.local, the value under "meditation_logs"
    toBackground,   \* runtime.sendMessage messages on their way to background.js
    bgGets,         \* browser.storage.local.get calls not yet resolved
    downloads,      \* browser.downloads.download calls, in order
    csErrors,       \* the content script's reportError calls
    bgErrors,       \* the background script's reportError calls
    overlap,        \* requests handled while another request was in flight
    bInput,         \* bucketing: the merged sequence handed to bucket_entries
    bOut,           \* bucketing: what bucket_entries returned
    bPc             \* bucketing: "idle", "ready" (input given) or "done"

vars == << localStorage, persistCount, nextReq, foreignCount, toContent, reqLog,
           setQueue, extStorage, toBackground, bgGets, downloads, csErrors,
           bgErrors, overlap, hasRun, listeners, injections, clickLog, popupErrors,
           bgSeen, csSeen, bInput, bOut, bPc >>

extensionVars == << localStorage, persistCount, nextReq, foreignCount, toContent,
                    reqLog, setQueue, extStorage, toBackground, bgGets, downloads,
                    csErrors, bgErrors, overlap, hasRun, listeners, injections,
                    clickLog, popupErrors, bgSeen, csSeen >>
bucketVars == << bInput, bOut, bPc >>

storageKey == "meditation_logs"

Init ==
    /\ localStorage \in [primary : PrimaryRaws, secondary : SecondaryRaws]
    /\ persistCount = 0
    /\ nextReq = 1
    /\ foreignCount = 0
    /\ toContent = << >>
    /\ reqLog = << >>
    /\ setQueue = << >>
    /\ extStorage = JUndefined
    /\ toBackground = << >>
    /\ bgGets = << >>
    /\ downloads = << >>
    /\ csErrors = << >>
    /\ bgErrors = << >>
    /\ overlap = {}
    /\ hasRun = TRUE
    /\ listeners = 1
    /\ injections = 1
    /\ clickLog = << >>
    /\ popupErrors = << >>
    /\ bgSeen = << >>
    /\ csSeen = << >>
    /\ bInput = << >>
    /\ bOut = NoBuckets
    /\ bPc = "idle"

SeqRange(s) == { s[i] : i \in 1..Len(s) }
Reqs(s) == { s[i].req : i \in 1..Len(s) }

\* Requests the content script has handled and the background has not
\* finished (its storage read has not resolved yet).
InFlight == Reqs(toBackground) \cup Reqs(bgGets)

\* ------------------------------------------------------------ environment
\* Redux Persist rewrites one of the two keys of the page's localStorage.
AppPersist ==
    /\ UNCHANGED bucketVars
    /\ UNCHANGED csSeen
    /\ UNCHANGED << hasRun, listeners, injections, clickLog, popupErrors, bgSeen >>
    /\ persistCount < MaxPersist
    /\ \/ \E raw \in PrimaryRaws \ {localStorage.primary} :
            localStorage' = [localStorage EXCEPT !.primary = raw]
       \/ \E raw \in SecondaryRaws \ {localStorage.secondary} :
            localStorage' = [localStorage EXCEPT !.secondary = raw]
    /\ persistCount' = persistCount + 1
    /\ UNCHANGED << nextReq, foreignCount, toContent, reqLog, setQueue, extStorage,
                    toBackground, bgGets, downloads, csErrors, bgErrors, overlap >>

\* ------------------------------------------------------------------ popup
\* e.target.classList.contains("button")
IsButtonClickAny(target) == TRUE
IsButtonClick(target) == target = "button"

\* What tabs.query and tabs.sendMessage can come to: the message is sent; the
\* query gives no tab, so that tabs[0].id throws; the active tab has no
\* receiver, so that the promise of tabs.sendMessage rejects.
ClickOutcomes == { "sent", "no_tab", "no_receiver" }

\* The popup's click listener with what its promises lead to: for an element
\* of class "button", tabs.query and then tabs.sendMessage of
\* store_meditation_logs to the active tab, each failure given to reportError;
\* for any other element, nothing. The clicked elements come from targets,
\* what the promises lead to from outcomes.
listenForClicks(targets, outcomes) ==
    /\ UNCHANGED bucketVars
    /\ UNCHANGED csSeen
    /\ \E target \in targets :
          IF IsButtonClick(target)
          THEN /\ nextReq <= MaxRequests
               /\ nextReq' = nextReq + 1
               /\ clickLog' = Append(clickLog, [target |-> target, req |-> nextReq])
               /\ \E outcome \in outcomes :
                     IF outcome = "sent"
                     THEN /\ toContent' = Append(toContent,
                                 [req |-> nextReq, command |-> "store_meditation_logs",
                                  served |-> 0])
                          /\ UNCHANGED << popupErrors, foreignCount >>
                     ELSE /\ foreignCount < MaxForeign
                          /\ foreignCount' = foreignCount + 1
                          /\ popupErrors' = Append(popupErrors,
                                 [req |-> nextReq, error |-> outcome])
                          /\ UNCHANGED toContent
          ELSE /\ foreignCount < MaxForeign
               /\ foreignCount' = foreignCount + 1
               /\ clickLog' = Append(clickLog, [target |-> target, req |-> 0])
               /\ UNCHANGED << nextReq, toContent, popupErrors >>
    /\ UNCHANGED << localStorage, persistCount, reqLog, setQueue,
                    extStorage, toBackground, bgGets, downloads, csErrors, bgErrors,
                    overlap, hasRun, listeners, injections, bgSeen >>

\* A click on any element of the popup, with any outcome.
PopupClick == listenForClicks({ "button", "other" }, ClickOutcomes)

\* A click on the button whose message is sent.
PopupClickSent == listenForClicks({ "button" }, { "sent" })

\* --------------------------------------------------------- content script
downloadMessage(req) ==
    [req |-> req, target |-> "background", command |-> "download_stored_object",
     storage_key |-> storageKey]

\* What the listener does with the promise of storeMeditationLogs:
\* .then(browser.runtime.sendMessage({...}), reportError). The first argument
\* is a call, evaluated when .then is called: the message is sent in the same
\* turn, whatever the promise's outcome.
SendsDownloadMessage(result) == TRUE

\* The onMessage listener of the content script, one turn of the event loop
\* and the microtasks that follow it.
\* message.command === "store_meditation_logs"
IsStoreCommandAny(message) == TRUE
IsStoreCommand(message) == message.command = "store_meditation_logs"

ContentListener(message) ==
    IF IsStoreCommand(message)
    THEN LET result == storeMeditationLogs(localStorage)
         IN  /\ reqLog' = Append(reqLog,
                      [req |-> message.req,
                       primary |-> localStorage.primary,
                       secondary |-> localStorage.secondary,
                       injections |-> injections,
                       result |-> result])
             /\ setQueue' = IF result.ok
                            THEN Append(setQueue,
                                     [req |-> message.req, key |-> storageKey,
                                      value |-> result.value])
                            ELSE setQueue
             /\ toBackground' = IF SendsDownloadMessage(result)
                                THEN Append(toBackground, downloadMessage(message.req))
                                ELSE toBackground
             /\ csErrors' = IF result.ok THEN csErrors
                            ELSE Append(csErrors,
                                     [req |-> message.req, error |-> result.error.message])
             /\ overlap' = IF InFlight # {}
                           THEN overlap \cup InFlight \cup {message.req}
                           ELSE overlap
    ELSE /\ csErrors' = Append(csErrors,
                            [req |-> message.req, error |-> "Unknown message command"])
         /\ UNCHANGED << reqLog, setQueue, toBackground, overlap >>

\* The guard at the top of the content script: a script injected into a
\* page where window.hasRun is set returns at once.
InjectNeverSkips == FALSE
InjectSkips == hasRun

\* The content script is injected into the page once more.
InjectContentScript ==
    /\ UNCHANGED bucketVars
    /\ UNCHANGED csSeen
    /\ foreignCount < MaxForeign
    /\ foreignCount' = foreignCount + 1
    /\ injections' = injections + 1
    /\ IF InjectSkips
       THEN UNCHANGED << hasRun, listeners >>
       ELSE /\ hasRun' = TRUE
            /\ listeners' = listeners + 1
    /\ UNCHANGED << localStorage, persistCount, nextReq, toContent, reqLog, setQueue,
                    extStorage, toBackground, bgGets, downloads, csErrors, bgErrors,
                    overlap, clickLog, popupErrors, bgSeen >>

\* The popup's message arrives at the content script: every registered
\* listener is called with it, one after the other.
ContentOnMessage ==
    /\ UNCHANGED bucketVars
    /\ UNCHANGED << hasRun, listeners, injections, clickLog, popupErrors, bgSeen >>
    /\ Len(toContent) > 0
    /\ listeners >= 1
    /\ csSeen' = Append(csSeen, Head(toContent))
    /\ toContent' = IF Head(toContent).served + 1 >= listeners
                    THEN Tail(toContent)
                    ELSE << [Head(toContent) EXCEPT !.served = @ + 1] >> \o Tail(toContent)
    /\ ContentListener(Head(toContent))
    /\ UNCHANGED << localStorage, persistCount, nextReq, foreignCount, extStorage,
                    bgGets, downloads, bgErrors >>

\* A message with a command the content script does not know arrives.
ContentOnForeignMessage ==
    /\ UNCHANGED bucketVars
    /\ UNCHANGED << hasRun, listeners, injections, clickLog, popupErrors, bgSeen >>
    /\ foreignCount < MaxForeign
    /\ foreignCount' = foreignCount + 1
    /\ listeners >= 1
    /\ csSeen' = Append(csSeen, [req |-> 0, command |-> "scrape_and_store", served |-> 0])
    /\ ContentListener([req |-> 0, command |-> "scrape_and_store", served |-> 0])
    /\ UNCHANGED << localStorage, persistCount, nextReq, toContent, extStorage,
                    bgGets, downloads, bgErrors >>

\* browser.storage.local.set takes effect.
StorageSetApplied ==
    /\ UNCHANGED bucketVars
    /\ UNCHANGED csSeen
    /\ UNCHANGED << hasRun, listeners, injections, clickLog, popupErrors, bgSeen >>
    /\ Len(setQueue) > 0
    /\ extStorage' = Head(setQueue).value
    /\ setQueue' = Tail(setQueue)
    /\ UNCHANGED << localStorage, persistCount, nextReq, foreignCount, toContent, reqLog,
                    toBackground, bgGets, downloads, csErrors, bgErrors, overlap >>

\* ------------------------------------------------------------- background
\* handleMessages(message), up to its call of browser.storage.local.get.
handleMessagesNoTargetCheck(message) ==
    IF message.command = "download_stored_object"
    THEN /\ bgGets' = Append(bgGets, [req |-> message.req,
                                      key |-> message.storage_key])
         /\ UNCHANGED bgErrors
    ELSE /\ bgErrors' = Append(bgErrors,
                            [req |-> message.req,
                             error |-> "Unknown message command"])
         /\ UNCHANGED bgGets
handleMessages(message) ==
    IF message.target = "background"
    THEN IF message.command = "download_stored_object"
         THEN /\ bgGets' = Append(bgGets, [req |-> message.req,
                                           key |-> message.storage_key])
              /\ UNCHANGED bgErrors
         ELSE /\ bgErrors' = Append(bgErrors,
                                 [req |-> message.req,
                                  error |-> "Unknown message command"])
              /\ UNCHANGED bgGets
    ELSE UNCHANGED << bgGets, bgErrors >>

\* The content script's message arrives at the background script.
BackgroundOnMessage ==
    /\ UNCHANGED bucketVars
    /\ UNCHANGED csSeen
    /\ UNCHANGED << hasRun, listeners, injections, clickLog, popupErrors >>
    /\ Len(toBackground) > 0
    /\ bgSeen' = Append(bgSeen, Head(toBackground))
    /\ toBackground' = Tail(toBackground)
    /\ handleMessages(Head(toBackground))
    /\ UNCHANGED << localStorage, persistCount, nextReq, foreignCount, toContent, reqLog,
                    setQueue, extStorage, downloads, csErrors, overlap >>

\* Runtime messages that are not the content script's download request: the
\* earlier popup's fetch_meditation_logs, and a message for another target.
ForeignMessages ==
    { [req |-> 0, target |-> "background", command |-> "fetch_meditation_logs",
       storage_key |-> "none"],
      [req |-> 0, target |-> "popup", command |-> "download_stored_object",
       storage_key |-> storageKey] }

BackgroundOnForeignMessage ==
    /\ UNCHANGED bucketVars
    /\ UNCHANGED csSeen
    /\ foreignCount < MaxForeign
    /\ foreignCount' = foreignCount + 1
    /\ UNCHANGED << hasRun, listeners, injections, clickLog, popupErrors >>
    /\ \E message \in ForeignMessages :
          /\ handleMessages(message)
          /\ bgSeen' = Append(bgSeen, message)
    /\ UNCHANGED << localStorage, persistCount, nextReq, toContent, reqLog, setQueue,
                    extStorage, toBackground, downloads, csErrors, overlap >>

\* JSON.stringify(value) for the values storage can hold.
JSONStringify(v) == JsonText(v)

\* browser.storage.local.get resolves and its .then callback runs:
\* storedObject[message.storage_key] is undefined when the key has no value,
\* and reading its length throws, which .catch(reportError) reports.
LengthNeverThrows(meditationLogs) == FALSE
LengthThrows(meditationLogs) == meditationLogs.t = "undefined"

StorageGetThen ==
    /\ UNCHANGED bucketVars
    /\ UNCHANGED csSeen
    /\ UNCHANGED << hasRun, listeners, injections, clickLog, popupErrors, bgSeen >>
    /\ Len(bgGets) > 0
    /\ LET get == Head(bgGets)
           meditationLogs == extStorage
       IN  /\ bgGets' = Tail(bgGets)
           /\ IF LengthThrows(meditationLogs)
              THEN /\ bgErrors' = Append(bgErrors,
                                      [req |-> get.req,
                                       error |-> "TypeError: meditationLogs is undefined"])
                   /\ UNCHANGED downloads
              ELSE /\ downloads' = Append(downloads,
                                       [req |-> get.req,
                                        content |-> JSONStringify(meditationLogs)])
                   /\ UNCHANGED bgErrors
    /\ UNCHANGED << localStorage, persistCount, nextReq, foreignCount, toContent, reqLog,
                    setQueue, extStorage, toBackground, csErrors, overlap >>

Next ==
    \/ AppPersist
    \/ PopupClick
    \/ InjectContentScript
    \/ ContentOnMessage
    \/ ContentOnForeignMessage
    \/ StorageSetApplied
    \/ BackgroundOnMessage
    \/ BackgroundOnForeignMessage
    \/ StorageGetThen

Spec == Init /\ [][Next]_vars

\* The merge on its own: the popup's requests, the app's writes of the page's
\* persisted state and the content script's listener, without the storage
\* and background steps that follow.
NextMerge ==
    \/ AppPersist
    \/ PopupClickSent
    \/ ContentOnMessage

SpecMerge == Init /\ [][NextMerge]_vars

\* The popup, the injections of the content script and its listener, over
\* a persisted state the app leaves alone.
NextPopup ==
    \/ PopupClick
    \/ InjectContentScript
    \/ ContentOnMessage

SpecPopup == Init /\ [][NextPopup]_vars

\* -------------------------------------------- bucketing, run on its own
MaxMerged == 3   \* longest merged sequence given to bucket_entries

InitBucket ==
    /\ localStorage = [primary |-> Absent, secondary |-> Absent]
    /\ persistCount = 0
    /\ nextReq = 1
    /\ foreignCount = 0
    /\ toContent = << >>
    /\ reqLog = << >>
    /\ setQueue = << >>
    /\ extStorage = JUndefined
    /\ toBackground = << >>
    /\ bgGets = << >>
    /\ downloads = << >>
    /\ csErrors = << >>
    /\ bgErrors = << >>
    /\ overlap = {}
    /\ hasRun = TRUE
    /\ listeners = 1
    /\ injections = 1
    /\ clickLog = << >>
    /\ popupErrors = << >>
    /\ bgSeen = << >>
    /\ csSeen = << >>
    /\ bInput \in SeqsUpTo(BucketLogs, MaxMerged)
    /\ bOut = NoBuckets
    /\ bPc = "ready"

BucketEntries ==
    /\ bPc = "ready"
    /\ bOut' = bucket_entries(bInput)
    /\ bPc' = "done"
    /\ UNCHANGED bInput
    /\ UNCHANGED extensionVars

NextBucket == BucketEntries

SpecBucket == InitBucket /\ [][NextBucket]_vars

\* ================================================================= claims
IsArrayRaw(raw) == raw.raw = "json" /\ raw.v.t = "array"
BothArrays(e) == IsArrayRaw(e.primary) /\ IsArrayRaw(e.secondary)
PrimaryItems(e) == e.primary.v.items
SecondaryItems(e) == e.secondary.v.items
Handled == { reqLog[i] : i \in 1..Len(reqLog) }
LogOf(r) == CHOOSE e \in Handled : e.req = r
Count(seq, x) == Cardinality({ i \in 1..Len(seq) : seq[i] = x })

\* C1: when both persisted values are arrays P and S, storeMeditationLogs
\* produces exactly P followed by S: count(P) + count(S) records, P's in P's
\* order and then S's in S's order, and this is the value handed to storage.
C1_MergeIsPThenS ==
    \A e \in Handled :
        BothArrays(e) =>
            /\ e.result.ok
            /\ e.result.value.t = "array"
            /\ LET out == e.result.value.items
               IN  /\ Len(out) = Len(PrimaryItems(e)) + Len(SecondaryItems(e))
                   /\ \A j \in 1..Len(PrimaryItems(e)) : out[j] = PrimaryItems(e)[j]
                   /\ \A j \in 1..Len(SecondaryItems(e)) : out[Len(PrimaryItems(e)) + j] = SecondaryItems(e)[j]
            /\ \A i \in 1..Len(setQueue) :
                   setQueue[i].req = e.req => setQueue[i].value = e.result.value

\* C1 witness: a request merged a primary array of two different records
\* with a non-empty secondary array.
C1_Witness ==
    \E e \in Handled :
        /\ BothArrays(e)
        /\ Len(PrimaryItems(e)) = 2 /\ PrimaryItems(e)[1] # PrimaryItems(e)[2]
        /\ Len(SecondaryItems(e)) >= 1
        /\ e.result.ok

\* C2 as stated: in the merged output every record from S has isMalaRecord
\* true and every record from P has isMalaRecord false.
C2_StampedAsStated ==
    \A e \in Handled :
        (BothArrays(e) /\ e.result.ok) =>
            LET out == e.result.value.items
            IN  /\ \A j \in 1..Len(PrimaryItems(e)) :
                       /\ "isMalaRecord" \in DOMAIN out[j]
                       /\ out[j].isMalaRecord = FALSE
                /\ \A j \in 1..Len(SecondaryItems(e)) :
                       /\ "isMalaRecord" \in DOMAIN out[Len(PrimaryItems(e)) + j]
                       /\ out[Len(PrimaryItems(e)) + j].isMalaRecord = TRUE

\* C2 amended: the merge adds no isMalaRecord field; every merged record is
\* its source record unchanged, and provenance is given by position alone:
\* positions 1..count(P) hold P's records, the later positions hold S's.
C2_ProvenanceByPosition ==
    \A e \in Handled :
        (BothArrays(e) /\ e.result.ok) =>
            LET out == e.result.value.items
            IN  \A j \in 1..Len(out) :
                    /\ "isMalaRecord" \notin DOMAIN out[j]
                    /\ j <= Len(PrimaryItems(e)) => out[j] = PrimaryItems(e)[j]
                    /\ j > Len(PrimaryItems(e)) => out[j] = SecondaryItems(e)[j - Len(PrimaryItems(e))]

\* C2 witness: a merge of a non-empty P with a non-empty S.
C2_Witness ==
    \E e \in Handled :
        BothArrays(e) /\ e.result.ok /\ Len(PrimaryItems(e)) >= 1 /\ Len(SecondaryItems(e)) >= 1

\* C3 as stated: when either persisted value is absent, malformed or not an
\* array, the merge fails and produces no output: nothing is handed to
\* storage, and storage never holds a value that is not an array.
C3_FailsOnBadSource ==
    /\ \A e \in Handled :
           ~BothArrays(e) =>
               /\ ~e.result.ok
               /\ e.req \notin Reqs(setQueue)
    /\ extStorage.t \in { "undefined", "array" }
    /\ extStorage.t = "array" =>
           \A j \in 1..Len(extStorage.items) : "course" \in DOMAIN extStorage.items[j]

\* C4 as stated: when the merge of a request fails, no download_stored_object
\* message is sent for it and no download is started for it.
C4_NoExportAfterFailedMerge ==
    /\ \A i \in 1..Len(toBackground) :
           toBackground[i].req # 0 => LogOf(toBackground[i].req).result.ok
    /\ \A i \in 1..Len(bgGets) : LogOf(bgGets[i].req).result.ok
    /\ \A i \in 1..Len(downloads) : LogOf(downloads[i].req).result.ok

\* C5 as stated, for the requests that read two arrays: the
\* download_stored_object message of a request is never on its way while the
\* storage write of the same request is still pending.
C5_MessageAfterWrite ==
    \A i \in 1..Len(toBackground) :
        LET r == toBackground[i].req
        IN  (r # 0 /\ BothArrays(LogOf(r))) => r \notin Reqs(setQueue)

\* C6 as stated: of two requests in flight at the same time, each one's
\* download holds the merge P followed by S of the persisted state that this
\* request read.
C6_ConcurrentRequestsIndependent ==
    \A i \in 1..Len(downloads) :
        LET e == LogOf(downloads[i].req)
        IN  (e.req \in overlap /\ BothArrays(e)) =>
                downloads[i].content = JSONStringify(JArray(PrimaryItems(e) \o SecondaryItems(e)))

\* ------------------------------------------------ claims about bucketing
RECURSIVE Flatten(_)
Flatten(buckets) ==
    IF Len(buckets) = 0 THEN << >>
    ELSE Head(buckets).records \o Flatten(Tail(buckets))
TotalBucketed(out) == Len(Flatten(out.buckets))
IsUnrecognized(record) ==
    ~HasCode(record.course) /\ record.course.name # "Custom"
RemoveAt(seq, i) == SubSeq(seq, 1, i - 1) \o SubSeq(seq, i + 1, Len(seq))
WithoutKey(buckets, key) == SelectSeq(buckets, LAMBDA b : b.key # key)

\* C7: bucketing puts every record of the merged sequence in exactly one
\* bucket: bucket keys are distinct, every bucket holds only records of its
\* key, and each record is in the buckets as often as in the sequence.
C7_ExactlyOneBucket ==
    bPc = "done" =>
        /\ ~bOut.threw
        /\ \A i, j \in 1..Len(bOut.buckets) :
               bOut.buckets[i].key = bOut.buckets[j].key => i = j
        /\ \A i \in 1..Len(bOut.buckets) :
               \A k \in 1..Len(bOut.buckets[i].records) :
                   /\ bOut.buckets[i].records[k] \in SeqRange(bInput)
                   /\ categoryKey(bOut.buckets[i].records[k]).key = bOut.buckets[i].key
        /\ \A x \in SeqRange(bInput) :
               Count(Flatten(bOut.buckets), x) = Count(bInput, x)

\* C7 witness: a bucketed sequence of full length with a repeated record,
\* an unrecognized record and at least two buckets.
C7_Witness ==
    /\ bPc = "done"
    /\ Len(bInput) = MaxMerged
    /\ \E i, j \in 1..Len(bInput) : i # j /\ bInput[i] = bInput[j]
    /\ \E i \in 1..Len(bInput) : IsUnrecognized(bInput[i])
    /\ Len(bOut.buckets) >= 2

\* C8 as stated: records across all buckets plus records in the unrecognized
\* side list number as many as the merged sequence.
C8_CountAsStated ==
    bPc = "done" =>
        TotalBucketed(bOut) + Len(bOut.unrecognized) = Len(bInput)

\* C8 amended: the records across all buckets number as many as the merged
\* sequence; the side list repeats the records of the sentinel bucket, so
\* buckets plus side list exceed the sequence by the unrecognized records.
C8_CountAmended ==
    bPc = "done" =>
        /\ TotalBucketed(bOut) = Len(bInput)
        /\ bOut.unrecognized = SelectSeq(bInput, IsUnrecognized)
        /\ bOut.unrecognized = BucketOf(bOut.buckets, UNRECOGNIZED)
        /\ TotalBucketed(bOut) + Len(bOut.unrecognized)
               = Len(bInput) + Len(SelectSeq(bInput, IsUnrecognized))

\* C8 witness: a bucketed sequence with an unrecognized and a recognized record.
C8_Witness ==
    /\ bPc = "done"
    /\ \E i \in 1..Len(bInput) : IsUnrecognized(bInput[i])
    /\ \E i \in 1..Len(bInput) : ~IsUnrecognized(bInput[i])
    /\ Len(bOut.unrecognized) >= 1

C10_CustomSameBucket ==
    bPc = "done" =>
        \A i \in 1..Len(bInput) :
            bInput[i].course \in { CourseCustomOld, CourseCustomNew } =>
                /\ Count(BucketOf(bOut.buckets, CUSTOM), bInput[i]) = Count(bInput, bInput[i])
                /\ \A k \in 1..Len(bOut.buckets) :
                       bOut.buckets[k].key # CUSTOM =>
                           Count(bOut.buckets[k].records, bInput[i]) = 0

\* C10 witness: the new-format Custom record comes before the old-format one,
\* with a record of another course between them.
C10_Witness ==
    /\ bPc = "done"
    /\ Len(bInput) = 3
    /\ bInput[1].course = CourseCustomNew
    /\ bInput[2].course \notin { CourseCustomOld, CourseCustomNew }
    /\ bInput[3].course = CourseCustomOld
    /\ Len(BucketOf(bOut.buckets, CUSTOM)) = 2

\* C11: a record whose course.code is present and non-empty is in the bucket
\* keyed by exactly that code, whatever its course name (also for the name
\* "Custom" with a code other than "CUSTOM"), and in no other bucket; the
\* name decides only for a record whose code is absent or empty.
C11_CodeTakesPrecedence ==
    bPc = "done" =>
        \A i \in 1..Len(bInput) :
            LET r == bInput[i]
                expected == IF HasCode(r.course) THEN r.course.code
                            ELSE IF r.course.name = "Custom" THEN CUSTOM
                            ELSE UNRECOGNIZED
            IN  /\ Count(BucketOf(bOut.buckets, expected), r) = Count(bInput, r)
                /\ \A k \in 1..Len(bOut.buckets) :
                       bOut.buckets[k].key # expected =>
                           Count(bOut.buckets[k].records, r) = 0

\* C11 witness: a record named "Custom" with the code "custom" is bucketed
\* under "custom", next to an old-format Custom record under "CUSTOM" and a
\* record with an empty code.
C11_Witness ==
    /\ bPc = "done"
    /\ \E i, j, k \in 1..Len(bInput) :
           /\ bInput[i].course = CourseLowerCode
           /\ bInput[j].course = CourseCustomOld
           /\ bInput[k].course = CourseEmptyCode
    /\ Len(BucketOf(bOut.buckets, "custom")) = 1
    /\ Len(BucketOf(bOut.buckets, CUSTOM)) = 2

FirstIndex(seq, key) ==
    CHOOSE i \in 1..Len(seq) :
        /\ categoryKey(seq[i]).key = key
        /\ \A j \in 1..(i - 1) : categoryKey(seq[j]).key # key

\* C12: each bucket holds the records of its key in the order they have in
\* the merged sequence, and the buckets are in the order in which their keys
\* first occur in the merged sequence.
C12_OrderPreserved ==
    bPc = "done" =>
        /\ \A k \in 1..Len(bOut.buckets) :
               bOut.buckets[k].records
                   = SelectSeq(bInput,
                               LAMBDA r : categoryKey(r).key = bOut.buckets[k].key)
        /\ \A k, m \in 1..Len(bOut.buckets) :
               k < m => FirstIndex(bInput, bOut.buckets[k].key)
                            < FirstIndex(bInput, bOut.buckets[m].key)

\* C12 witness: two different records of one key with a record of another
\* key between them.
C12_Witness ==
    /\ bPc = "done"
    /\ Len(bInput) = 3
    /\ categoryKey(bInput[1]).key = categoryKey(bInput[3]).key
    /\ categoryKey(bInput[1]).key # categoryKey(bInput[2]).key
    /\ bInput[1] # bInput[3]
    /\ Len(bOut.buckets) = 2
    /\ bOut.buckets[1].records = << bInput[1], bInput[3] >>

\* The value of every field of the source record is kept; only a field
\* isMalaRecord may have been added.
SameButFlag(out, src) ==
    /\ DOMAIN out \ { "isMalaRecord" } = DOMAIN src
    /\ \A f \in DOMAIN src : out[f] = src[f]
MergeValues == { e.result.value : e \in { h \in Handled : h.result.ok } }

\* C13: merging and exporting change no record. Every record of a merge has
\* the field values of its persisted source record (the mala data of the
\* secondary records included), apart from an isMalaRecord flag; what is
\* stored and what is downloaded is such a merge as it was produced; and no
\* step of a run writes the page's persisted sources.
C13_RecordsInvariant ==
    /\ \A e \in Handled :
           (BothArrays(e) /\ e.result.ok) =>
               LET out == e.result.value.items
               IN  /\ Len(out) = Len(PrimaryItems(e)) + Len(SecondaryItems(e))
                   /\ \A j \in 1..Len(out) :
                          SameButFlag(out[j],
                              IF j <= Len(PrimaryItems(e)) THEN PrimaryItems(e)[j]
                              ELSE SecondaryItems(e)[j - Len(PrimaryItems(e))])
    /\ extStorage \in { JUndefined } \cup MergeValues
    /\ \A i \in 1..Len(setQueue) : setQueue[i].value \in MergeValues
    /\ \A i \in 1..Len(downloads) :
           downloads[i].content \in { JSONStringify(v) : v \in MergeValues }
C13_RecordsUnchanged ==
    /\ []C13_RecordsInvariant
    /\ [][persistCount' = persistCount => localStorage' = localStorage]_vars

\* C13 witness: a download holds the merge of a regular record and a mala
\* record with its mala count.
C13_Witness ==
    \E i \in 1..Len(downloads) :
        LET e == LogOf(downloads[i].req)
        IN  /\ BothArrays(e)
            /\ Len(PrimaryItems(e)) >= 1
            /\ Len(SecondaryItems(e)) >= 1
            /\ "malas" \in DOMAIN SecondaryItems(e)[1]
            /\ downloads[i].content = JSONStringify(e.result.value)

CountReq(seq, r) == Cardinality({ i \in 1..Len(seq) : seq[i].req = r })

\* C15: however often the content script is injected, exactly one listener
\* is registered, so that a store_meditation_logs message is handled once:
\* at most one storage write and one download_stored_object message for it.
C15_OneListener ==
    /\ hasRun
    /\ listeners = 1
    /\ \A r \in 1..(nextReq - 1) :
           /\ CountReq(reqLog, r) <= 1
           /\ CountReq(setQueue, r) <= 1
           /\ CountReq(toBackground, r) <= 1
           /\ CountReq(toContent, r) + CountReq(reqLog, r) <= 1

\* C15 witness: the script was injected a second time, and a message that
\* arrived after that led to one write and one message.
C15_Witness ==
    /\ injections >= 2
    /\ \E i \in 1..Len(reqLog) :
           /\ reqLog[i].injections >= 2
           /\ reqLog[i].result.ok
           /\ CountReq(setQueue, reqLog[i].req) = 1
           /\ CountReq(toBackground, reqLog[i].req) = 1

\* C16: every click on an element of class "button" leads to exactly one of
\* a store_meditation_logs message to the content script and a reported
\* failure, before and after a failure alike; a click on another element
\* leads to neither; no message and no report is without its button click.
C16_OneMessagePerButtonClick ==
    /\ \A k \in 1..Len(clickLog) :
           IF clickLog[k].target = "button"
           THEN /\ clickLog[k].req >= 1
                /\ CountReq(clickLog, clickLog[k].req) = 1
                /\ CountReq(toContent, clickLog[k].req)
                       + CountReq(reqLog, clickLog[k].req)
                       + CountReq(popupErrors, clickLog[k].req) = 1
           ELSE clickLog[k].req = 0
    /\ \A r \in (Reqs(toContent) \cup Reqs(reqLog) \cup Reqs(popupErrors)) \ { 0 } :
           \E k \in 1..Len(clickLog) :
               clickLog[k].target = "button" /\ clickLog[k].req = r
    /\ \A i \in 1..Len(toContent) :
           toContent[i].req # 0 => toContent[i].command = "store_meditation_logs"

\* C16 witness: a click whose send failed was reported, and the next click
\* on the button sent its message.
C16_Witness ==
    /\ Len(clickLog) >= 2
    /\ \E i \in 1..Len(popupErrors) : popupErrors[i].req = 1
    /\ CountReq(toContent, 2) = 1

\* C17 as stated: every download made for a request that read two arrays
\* holds exactly the merge P followed by S that this request read, whenever
\* the background's storage read resolves: never the value an earlier
\* request stored, and no read finds the storage key without a value.
C17_DownloadIsOwnMerge ==
    /\ \A i \in 1..Len(downloads) :
           LET e == LogOf(downloads[i].req)
           IN  BothArrays(e) =>
                   downloads[i].content = JSONStringify(JArray(PrimaryItems(e) \o SecondaryItems(e)))
    /\ \A i \in 1..Len(bgErrors) :
           (bgErrors[i].req # 0 /\ BothArrays(LogOf(bgErrors[i].req))) =>
               bgErrors[i].error # "TypeError: meditationLogs is undefined"

Settled(r) == r \notin (Reqs(setQueue) \cup Reqs(toBackground) \cup Reqs(bgGets))

\* C18 as stated, for runs whose storage and messaging operations have
\* completed: a request that read two arrays and has no write, message or
\* storage read left to complete has started exactly one download, the first
\* request ever made included.
C18_OneDownloadPerRequest ==
    \A e \in Handled :
        (BothArrays(e) /\ Settled(e.req)) => CountReq(downloads, e.req) = 1

NullOrUnparsable(raw) == raw.raw \in { "absent", "malformed" }
FailsOnRead(e) == NullOrUnparsable(e.primary) \/ NullOrUnparsable(e.secondary)

C19_NoWriteQueued ==
    \A e \in Handled :
        FailsOnRead(e) => ~e.result.ok /\ e.req \notin Reqs(setQueue)

\* C19: a request whose primary or secondary persisted value is null or
\* cannot be parsed fails without a storage write: the step that handles it
\* leaves the value under "meditation_logs" and the pending writes as they
\* were, and no write is ever pending for it.
C19_StorageUnchangedOnFailure ==
    /\ []C19_NoWriteQueued
    /\ [][(Len(reqLog') = Len(reqLog) + 1 /\ FailsOnRead(reqLog'[Len(reqLog')]))
             => (extStorage' = extStorage /\ setQueue' = setQueue)]_vars

\* C19 witness: a request stored its merge, the app's persisted value then
\* went missing, and the next request failed with the stored merge still
\* under the key.
C19_Witness ==
    /\ Len(reqLog) = 2
    /\ reqLog[1].result.ok /\ BothArrays(reqLog[1])
    /\ Len(reqLog[1].result.value.items) >= 1
    /\ FailsOnRead(reqLog[2])
    /\ setQueue = << >>
    /\ extStorage = reqLog[1].result.value

\* C20: whenever handleMessages is called with a message, if the target is
\* not "background" it reads no storage, starts no download and reports no
\* error; if the target is "background" and the command is not
\* download_stored_object it reports an error, reads no storage and starts
\* no download.
C20_ActsOnlyOnBackgroundTarget ==
    [][Len(bgSeen') = Len(bgSeen) + 1 =>
          LET message == bgSeen'[Len(bgSeen')]
          IN  /\ message.target # "background" =>
                     /\ bgGets' = bgGets
                     /\ downloads' = downloads
                     /\ bgErrors' = bgErrors
              /\ (message.target = "background"
                      /\ message.command # "download_stored_object") =>
                     /\ bgErrors' = Append(bgErrors,
                                        [req |-> message.req,
                                         error |-> "Unknown message command"])
                     /\ bgGets' = bgGets
                     /\ downloads' = downloads]_vars

\* C20 witness: after the content script's message started a storage read,
\* a download_stored_object message for another target arrived, and there
\* is still that one read, no download and no error.
C20_Witness ==
    /\ Len(bgSeen) = 2
    /\ bgSeen[1].target = "background" /\ bgSeen[1].command = "download_stored_object"
    /\ bgSeen[2].target # "background" /\ bgSeen[2].command = "download_stored_object"
    /\ Len(bgGets) = 1 /\ bgGets[1].req = bgSeen[1].req
    /\ downloads = << >>
    /\ bgErrors = << >>

\* C21: when the callback of storage.local.get runs and storage holds no
\* value under the key, no download is started and the failure is reported
\* through reportError; when it holds a value, whatever failed before, one
\* download of that value is started and nothing is reported.
C21_MissingValueReported ==
    [][Len(bgGets') = Len(bgGets) - 1 =>
          IF extStorage.t = "undefined"
          THEN /\ downloads' = downloads
               /\ bgErrors' = Append(bgErrors,
                                  [req |-> Head(bgGets).req,
                                   error |-> "TypeError: meditationLogs is undefined"])
          ELSE /\ downloads' = Append(downloads,
                                   [req |-> Head(bgGets).req,
                                    content |-> JSONStringify(extStorage)])
               /\ bgErrors' = bgErrors]_vars

\* C21 witness: the first request's read found no value and was reported;
\* the second request's message was handled after that and its read
\* started a download.
C21_Witness ==
    /\ Len(bgSeen) = 2
    /\ bgErrors = << [req |-> bgSeen[1].req,
                      error |-> "TypeError: meditationLogs is undefined"] >>
    /\ Len(downloads) = 1
    /\ downloads[1].req = bgSeen[2].req

\* C22: whenever the content script's listener is called with a message
\* whose command is not store_meditation_logs, it reports one error and does
\* nothing else: no read of the page's persisted state, no write to
\* extension storage, queued or applied, and no message to the background.
C22_UnknownCommandOnlyReports ==
    [][(Len(csSeen') = Len(csSeen) + 1
           /\ csSeen'[Len(csSeen')].command # "store_meditation_logs") =>
          /\ csErrors' = Append(csErrors,
                             [req |-> csSeen'[Len(csSeen')].req,
                              error |-> "Unknown message command"])
          /\ reqLog' = reqLog
          /\ setQueue' = setQueue
          /\ extStorage' = extStorage
          /\ toBackground' = toBackground
          /\ localStorage' = localStorage]_vars

\* C22 witness: with a merge stored under the key, a message with another
\* command was handled: one report, and the log of reads, the pending
\* writes and the messages to the background are those of the one request.
C22_Witness ==
    /\ Len(csSeen) = 2
    /\ csSeen[1].command = "store_meditation_logs"
    /\ csSeen[2].command # "store_meditation_logs"
    /\ Len(reqLog) = 1 /\ reqLog[1].result.ok
    /\ csErrors = << [req |-> csSeen[2].req, error |-> "Unknown message command"] >>
    /\ Len(setQueue) = 1
    /\ Len(toBackground) = 1

====
